---- MODULE Spec2Model ----
(***************************************************************************)
(* Model of the resilient email service: EmailService.sendEmail with its   *)
(* idempotency set, rate window, status map, retry/fallback loop, and the  *)
(* CircuitBreaker that wraps every provider.                               *)
(*                                                                         *)
(* JavaScript runs one callback at a time, so every action below is the    *)
(* code that runs between two suspension points (await) of one call.       *)
(* Times are milliseconds, as returned by Date.now().  A TrackedEmail is   *)
(* an object: rec holds the objects by id, emailStatus and the calls hold  *)
(* ids, so two calls can share or replace a record as the code does.       *)
(***************************************************************************)
EXTENDS Integers, Sequences, FiniteSets, TLC

\* ---------------------------------------------------------------- bounds
\* Spec: number of sendEmail invocations in one behaviour
MaxCalls == 3
\* Spec: number of distinct idempotency keys the callers use
NumKeys == 2
\* Spec: the clock does not advance beyond this time (past both breakers' reset
\* timeouts after a dispatch that fails on every try)
MaxTime == 32000
\* SpecRate: the same three bounds, for more calls and keys over a horizon that
\* passes the rate window but not the breakers' reset timeout
RateCalls == 4
RateKeys == 3
RateTime == 11300
\* SpecSlow: the same three bounds, and the number of invocations whose first
\* send to the primary provider may stay pending while the clock advances
SlowCalls == 4
SlowKeys == 2
SlowTime == 30700
SlowSends == 1
\* SpecLive: the same three bounds as Spec, for the fair behaviours
LiveCalls == 2
LiveKeys == 2
LiveTime == 31000

\* ------------------------------------------------------ program constants
NumProviders == 2
RATE_LIMIT_COUNT == 2
RATE_LIMIT_WINDOW_MS == 10000
MAX_RETRIES == 2
BACKOFF_BASE_MS == 200
failureThreshold == 3
resetTimeout == 30000

Max(a, b) == IF a >= b THEN a ELSE b
Min(a, b) == IF a <= b THEN a ELSE b

Calls == 1..Max(MaxCalls, RateCalls)
Keys == 1..Max(NumKeys, RateKeys)
Providers == 1..NumProviders
\* how a provider's send can end: every provider of the repository resolves
\* with {success: true} or rejects
ProviderOutcomes == {"ok", "ProviderSendFailure"}

VARIABLES
    now,               \* Date.now()
    sentEmailIds,      \* EmailService.sentEmailIds
    emailStatus,       \* EmailService.emailStatus: key -> id of the stored record, 0 = none
    requestTimestamps, \* EmailService.requestTimestamps
    rec,               \* the TrackedEmail objects, by id (the id of the call that made it)
    cb,                \* one CircuitBreaker per provider
    sendCalledCount,   \* per provider: invocations of the wrapped provider's send
    call,              \* per sendEmail invocation: its position and locals, whether
                       \* its pending send is a HALF_OPEN probe, and the response
                       \* of the HTTP handler that made it
    nextId,            \* the next invocation to start
    everThrew,         \* per provider: some send of it was rejected
    everOk,            \* per provider: some send of it resolved with success
    consecFails        \* per provider: rejected sends since the last resolved one

vars == <<now, sentEmailIds, emailStatus, requestTimestamps, rec, cb,
          sendCalledCount, call, nextId, everThrew, everOk, consecFails>>

NoRec == [status |-> "none", attempts |-> 0, provider |-> 0, lastAttempt |-> 0,
          idempotencyKey |-> 0]

IdleCall == [pc |-> "idle", key |-> 0, p |-> 0, i |-> 0, wakeAt |-> 0,
             outcome |-> "none", ret |-> 0, error |-> "none", admittedAt |-> -1,
             overlapped |-> FALSE, probe |-> FALSE, response |-> 0]

ClosedBreaker == [state |-> "CLOSED", failureCount |-> 0, lastFailureTime |-> 0,
                  halfOpenRequestPending |-> FALSE]

Init ==
    /\ now = 0
    /\ sentEmailIds = {}
    /\ emailStatus = [k \in Keys |-> 0]
    /\ requestTimestamps = <<>>
    /\ rec = [c \in Calls |-> NoRec]
    /\ cb = [p \in Providers |-> ClosedBreaker]
    /\ sendCalledCount = [p \in Providers |-> 0]
    /\ call = [c \in Calls |-> IdleCall]
    /\ nextId = 1
    /\ everThrew = [p \in Providers |-> FALSE]
    /\ everOk = [p \in Providers |-> FALSE]
    /\ consecFails = [p \in Providers |-> 0]

\* ------------------------------------------------------- CircuitBreaker
\* mutant of TimeoutPassed: a probe is admitted when exactly resetTimeout has
\* passed
TimeoutPassedAtEquality(b, t) == t - b.lastFailureTime >= resetTimeout

\* send: has the reset timeout passed since the last failure
TimeoutPassed(b, t) == t - b.lastFailureTime > resetTimeout

\* send, up to the call of the wrapped provider: the breaker after the gate and
\* whether the call passes or is rejected
Gate(b, t) ==
    IF b.state = "OPEN" /\ ~TimeoutPassed(b, t)
    THEN [cb |-> b, verdict |-> "CircuitOpen"]
    ELSE LET b1 == IF b.state = "OPEN"
                   THEN [b EXCEPT !.state = "HALF_OPEN",
                                  !.halfOpenRequestPending = FALSE]
                   ELSE b
         IN  IF b1.state = "HALF_OPEN" /\ b1.halfOpenRequestPending
             THEN [cb |-> b1, verdict |-> "ProbeInProgress"]
             ELSE [cb |-> IF b1.state = "HALF_OPEN"
                          THEN [b1 EXCEPT !.halfOpenRequestPending = TRUE]
                          ELSE b1,
                   verdict |-> "pass"]

\* mutants of ReachedThreshold: the circuit opens one failure early, one late
ReachedThresholdEarly(n) == n >= failureThreshold - 1

ReachedThresholdLate(n) == n > failureThreshold

\* recordFailure: does this failure count open the circuit
ReachedThreshold(n) == n >= failureThreshold

\* mutant of recordFailure: the probe flag survives the failure
recordFailureKeepsFlag(b, t) ==
    LET b1 == [b EXCEPT !.failureCount = @ + 1, !.lastFailureTime = t]
    IN  IF ReachedThreshold(b1.failureCount)
        THEN [b1 EXCEPT !.state = "OPEN"]
        ELSE b1

recordFailure(b, t) ==
    LET b1 == [b EXCEPT !.failureCount = @ + 1,
                        !.lastFailureTime = t,
                        !.halfOpenRequestPending = FALSE]
    IN  IF ReachedThreshold(b1.failureCount)
        THEN [b1 EXCEPT !.state = "OPEN"]
        ELSE b1

\* mutant of reset: the failure count survives a success
resetKeepsCount(b) ==
    [b EXCEPT !.state = "CLOSED", !.halfOpenRequestPending = FALSE]

reset(b) ==
    [b EXCEPT !.failureCount = 0, !.state = "CLOSED",
              !.halfOpenRequestPending = FALSE]

\* --------------------------------------------------------- EmailService
\* mutant of Retained: a timestamp exactly one window old is kept
RetainedInclusive(ts, t) == SelectSeq(ts, LAMBDA x : t - x <= RATE_LIMIT_WINDOW_MS)

\* isRateLimited: the timestamps kept by the filter
Retained(ts, t) == SelectSeq(ts, LAMBDA x : t - x < RATE_LIMIT_WINDOW_MS)

\* mutant of OverLimit: one request too many is let through
OverLimitLax(ts) == Len(ts) > RATE_LIMIT_COUNT

\* isRateLimited: the check on the pruned window
OverLimit(ts) == Len(ts) >= RATE_LIMIT_COUNT

\* mutant of AlreadyProcessed: the idempotency check is missing
AlreadyProcessedNever(k) == FALSE

\* sendEmail: the idempotency check
AlreadyProcessed(k) == k \in sentEmailIds

\* mutant of HasNextTry: the loop runs to i < MAX_RETRIES
HasNextTryShort(i) == i + 1 < MAX_RETRIES

\* mutant of HasNextTry: one try too many on every provider
HasNextTryExtra(i) == i <= MAX_RETRIES

\* mutant of HasNextTry: a provider is given up after its first failed try
HasNextTryNever(i) == FALSE

\* the retry loop's condition i <= MAX_RETRIES for the next index
HasNextTry(i) == i + 1 <= MAX_RETRIES

\* the catch block's condition for waiting before the next try
WaitsAfter(i) == i < MAX_RETRIES

\* mutant of Backoff: the delay does not grow
BackoffConstant(i) == BACKOFF_BASE_MS

\* Math.pow(2, i) * 200
Backoff(i) == (2 ^ i) * BACKOFF_BASE_MS

\* mutant of Escapes: the breaker's own rejections are rethrown
EscapesBreakerErrors(e) == e = "CircuitOpen"

\* the catch block of the retry loop: the errors it lets through to the caller
Escapes(e) == FALSE

getEmailStatus(k) == emailStatus[k]

Finished(c) == call[c].pc \in {"returned", "threw"}

\* mutant of Try: a try that the breaker rejects is not counted on the record
TryUncounted(c, p, i, r, t, cl) ==
    LET g == Gate(cb[p], t) IN
    /\ cb' = [cb EXCEPT ![p] = g.cb]
    /\ IF g.verdict = "pass"
       THEN /\ rec' = [rec EXCEPT ![c] = [r EXCEPT !.attempts = @ + 1, !.lastAttempt = t]]
            /\ sendCalledCount' = [sendCalledCount EXCEPT ![p] = @ + 1]
            /\ call' = [call EXCEPT ![c] = [cl EXCEPT !.pc = "inProvider", !.p = p,
                                                      !.i = i, !.outcome = "none",
                                                      !.wakeAt = 0,
                                                      !.probe = g.cb.state = "HALF_OPEN"]]
       ELSE /\ rec' = [rec EXCEPT ![c] = r]
            /\ UNCHANGED sendCalledCount
            /\ call' = [call EXCEPT ![c] = [cl EXCEPT !.pc = "settled", !.p = p,
                                                      !.i = i, !.outcome = g.verdict,
                                                      !.wakeAt = 0, !.probe = FALSE]]

\* One pass of the loop body up to the await: count the attempt, then call the
\* breaker's send, which rejects or invokes the wrapped provider.
\* r is the caller's record before the try, t the current time.
Try(c, p, i, r, t, cl) ==
    LET g == Gate(cb[p], t) IN
    /\ rec' = [rec EXCEPT ![c] = [r EXCEPT !.attempts = @ + 1, !.lastAttempt = t]]
    /\ cb' = [cb EXCEPT ![p] = g.cb]
    /\ IF g.verdict = "pass"
       THEN /\ sendCalledCount' = [sendCalledCount EXCEPT ![p] = @ + 1]
            /\ call' = [call EXCEPT ![c] = [cl EXCEPT !.pc = "inProvider", !.p = p,
                                                      !.i = i, !.outcome = "none",
                                                      !.wakeAt = 0,
                                                      !.probe = g.cb.state = "HALF_OPEN"]]
       ELSE /\ UNCHANGED sendCalledCount
            /\ call' = [call EXCEPT ![c] = [cl EXCEPT !.pc = "settled", !.p = p,
                                                      !.i = i, !.outcome = g.verdict,
                                                      !.wakeAt = 0, !.probe = FALSE]]

\* mutant of FinalFailure: the failed record names the last provider tried
FinalFailureNamed(c, cl) ==
    /\ rec' = [rec EXCEPT ![c].status = "failed", ![c].provider = cl.p]
    /\ emailStatus' = [emailStatus EXCEPT ![cl.key] = c]
    /\ call' = [call EXCEPT ![c] = [cl EXCEPT !.pc = "returned", !.ret = c, !.p = 0,
                                              !.i = 0, !.outcome = "none",
                                              !.wakeAt = 0, !.probe = FALSE]]
    /\ UNCHANGED <<cb, sendCalledCount>>

\* The end of the loops: the record is marked failed and returned.
FinalFailure(c, cl) ==
    /\ rec' = [rec EXCEPT ![c].status = "failed"]
    /\ emailStatus' = [emailStatus EXCEPT ![cl.key] = c]
    /\ call' = [call EXCEPT ![c] = [cl EXCEPT !.pc = "returned", !.ret = c, !.p = 0,
                                              !.i = 0, !.outcome = "none",
                                              !.wakeAt = 0, !.probe = FALSE]]
    /\ UNCHANGED <<cb, sendCalledCount>>

\* The step of the two loops after try i on provider p did not return.
NextIteration(c, t, cl) ==
    IF HasNextTry(cl.i)
    THEN Try(c, cl.p, cl.i + 1, rec[c], t, cl) /\ UNCHANGED emailStatus
    ELSE IF cl.p < NumProviders
         THEN Try(c, cl.p + 1, 0, rec[c], t, cl) /\ UNCHANGED emailStatus
         ELSE FinalFailure(c, cl)

\* mutant of RateLimitExceeded: the request time is logged before the check
RateLimitExceededLogged(c, cl, kept) ==
    /\ requestTimestamps' = Append(kept, now)
    /\ call' = [call EXCEPT ![c] = [cl EXCEPT !.pc = "threw",
                                              !.error = "RateLimitExceeded"]]
    /\ UNCHANGED <<rec, cb, sendCalledCount, emailStatus>>

\* sendEmail when isRateLimited() is true: the pruned window is kept and the
\* call throws
RateLimitExceeded(c, cl, kept) ==
    /\ requestTimestamps' = kept
    /\ call' = [call EXCEPT ![c] = [cl EXCEPT !.pc = "threw",
                                              !.error = "RateLimitExceeded"]]
    /\ UNCHANGED <<rec, cb, sendCalledCount, emailStatus>>

\* POST /send-email: the error that reaches the handler's catch block when the
\* promise of sendEmail is rejected with e.  The handler calls sendEmail without
\* await, and an async function never throws into its caller: none.
Caught(e) == "none"

\* POST /send-email: the status code of the response
Respond(e) ==
    IF e = "none" THEN 202
    ELSE IF e = "RateLimitExceeded" THEN 429
    ELSE 500

\* sendEmail(payload, k), from its call to its first suspension, and the
\* response of the handler that made the call.  Invocations are numbered in the
\* order they start, and keys, which are interchangeable, in the order of their
\* first use.
sendEmail(c, k) ==
    /\ c = nextId
    /\ call[c].pc = "idle"
    /\ \A j \in Keys : j < k => \E d \in Calls : call[d].key = j
    /\ nextId' = nextId + 1
    /\ LET rejection == IF ~AlreadyProcessed(k)
                               /\ OverLimit(Retained(requestTimestamps, now))
                            THEN "RateLimitExceeded" ELSE "none"
           cl == [call[c] EXCEPT !.key = k,
                     !.overlapped = \A d \in Calls : d < c => ~Finished(d),
                     !.response = Respond(Caught(rejection))]
       IN
       IF AlreadyProcessed(k)
       THEN /\ call' = [call EXCEPT ![c] = [cl EXCEPT !.pc = "returned",
                                                      !.ret = emailStatus[k]]]
            /\ UNCHANGED <<requestTimestamps, rec, cb, sendCalledCount, emailStatus>>
       ELSE LET kept == Retained(requestTimestamps, now) IN
            IF OverLimit(kept)
            THEN RateLimitExceeded(c, cl, kept)
            ELSE /\ requestTimestamps' = Append(kept, now)
                 /\ emailStatus' = [emailStatus EXCEPT ![k] = c]
                 /\ Try(c, 1, 0,
                        [status |-> "pending", attempts |-> 0, provider |-> 0,
                         lastAttempt |-> now, idempotencyKey |-> k],
                        now, [cl EXCEPT !.admittedAt = now])
    /\ UNCHANGED <<now, sentEmailIds, everThrew, everOk, consecFails>>

\* The wrapped provider's send settles and CircuitBreaker.send continues:
\* reset() and return the result, or recordFailure() and rethrow.
providerSettles(c, o) ==
    /\ call[c].pc = "inProvider"
    /\ LET p == call[c].p IN
       /\ cb' = [cb EXCEPT ![p] = IF o = "ProviderSendFailure"
                                  THEN recordFailure(@, now) ELSE reset(@)]
       /\ everThrew' = [everThrew EXCEPT ![p] = @ \/ o # "ok"]
       /\ everOk' = [everOk EXCEPT ![p] = @ \/ o = "ok"]
       /\ consecFails' = [consecFails EXCEPT ![p] =
                             IF o = "ProviderSendFailure"
                             THEN Min(@ + 1, failureThreshold) ELSE 0]
    /\ call' = [call EXCEPT ![c].pc = "settled", ![c].outcome = o]
    /\ UNCHANGED <<now, sentEmailIds, emailStatus, requestTimestamps, rec,
                   sendCalledCount, nextId>>

\* sendEmail continues after `await provider.send(payload)`
resume(c) ==
    /\ call[c].pc = "settled"
    /\ LET cl == call[c]
           o == cl.outcome
       IN
       IF o = "ok"
       THEN /\ rec' = [rec EXCEPT ![c].status = "sent", ![c].provider = cl.p]
            /\ sentEmailIds' = sentEmailIds \cup {cl.key}
            /\ emailStatus' = [emailStatus EXCEPT ![cl.key] = c]
            /\ call' = [call EXCEPT ![c] = [cl EXCEPT !.pc = "returned", !.ret = c,
                                              !.p = 0, !.i = 0, !.outcome = "none",
                                              !.probe = FALSE]]
            /\ UNCHANGED <<cb, sendCalledCount>>
       ELSE IF Escapes(o)
       THEN /\ call' = [call EXCEPT ![c] = [cl EXCEPT !.pc = "threw", !.error = o,
                                              !.p = 0, !.i = 0, !.outcome = "none",
                                              !.probe = FALSE]]
            /\ UNCHANGED <<rec, sentEmailIds, emailStatus, cb, sendCalledCount>>
       ELSE IF WaitsAfter(cl.i)
       THEN /\ call' = [call EXCEPT ![c].pc = "waiting",
                                    ![c].wakeAt = now + Backoff(cl.i),
                                    ![c].probe = FALSE]
            /\ UNCHANGED <<rec, sentEmailIds, emailStatus, cb, sendCalledCount>>
       ELSE NextIteration(c, now, cl) /\ UNCHANGED sentEmailIds
    /\ UNCHANGED <<now, requestTimestamps, nextId, everThrew, everOk, consecFails>>

\* The backoff timer of call c fires (not before its time) and the loop goes on.
waitElapsed(c) ==
    /\ call[c].pc = "waiting"
    /\ now >= call[c].wakeAt
    /\ NextIteration(c, now, call[c])
    /\ UNCHANGED <<now, sentEmailIds, requestTimestamps, nextId, everThrew, everOk,
                   consecFails>>

\* The instants at which the passing of time alone changes what a callback would
\* do: a backoff timer falls due, a timestamp leaves the rate window, an open
\* breaker's timeout is reached (still rejecting) and passed (admitting a probe).
\* The clock takes these values only, so requests arrive at these instants.
Instants ==
    {call[c].wakeAt : c \in {d \in Calls : call[d].pc = "waiting"}}
    \cup {requestTimestamps[j] + RATE_LIMIT_WINDOW_MS : j \in DOMAIN requestTimestamps}
    \cup UNION {{cb[p].lastFailureTime + resetTimeout,
                 cb[p].lastFailureTime + resetTimeout + 1} :
                p \in {q \in Providers : cb[q].state = "OPEN"}}

Future(horizon) == {t \in Instants : t > now /\ t <= horizon}

\* SpecSlow: the sends that take time.  `await this.provider.send(payload)` has
\* no timeout, so such a send stays pending for as long as the provider likes.
SlowSend(c) == c <= SlowSends /\ call[c].p = 1 /\ call[c].i = 0

\* Time passes while no callback runs, up to the next such instant.  Promise
\* continuations run before the clock moves and a due timer fires on time.  A
\* provider's send settles in the instant it was called (as the send of the
\* test's ControllableMockProvider does) unless `slow` and it is a SlowSend.
Tick(horizon, slow) ==
    /\ Future(horizon) # {}
    /\ \A c \in Calls : call[c].pc # "settled"
    /\ \A c \in Calls : call[c].pc = "inProvider" => (slow /\ SlowSend(c))
    /\ \A c \in Calls : call[c].pc = "waiting" => now < call[c].wakeAt
    /\ now' = CHOOSE t \in Future(horizon) : \A u \in Future(horizon) : t <= u
    /\ UNCHANGED <<sentEmailIds, emailStatus, requestTimestamps, rec, cb,
                   sendCalledCount, call, nextId, everThrew, everOk, consecFails>>

\* Past the horizon the clock still advances to the backoff timers that are
\* pending, so that a dispatch admitted before the horizon runs to its end.
TimerTick(horizon) ==
    /\ Future(horizon) = {}
    /\ \A c \in Calls : call[c].pc \notin {"settled", "inProvider"}
    /\ \E c \in Calls : call[c].pc = "waiting"
    /\ \A c \in Calls : call[c].pc = "waiting" => now < call[c].wakeAt
    /\ now' = CHOOSE t \in {call[c].wakeAt : c \in {d \in Calls : call[d].pc = "waiting"}} :
                  \A c \in Calls : call[c].pc = "waiting" => t <= call[c].wakeAt
    /\ UNCHANGED <<sentEmailIds, emailStatus, requestTimestamps, rec, cb,
                   sendCalledCount, call, nextId, everThrew, everOk, consecFails>>

\* The steps of the system with at most `calls` invocations of sendEmail, over
\* the keys 1..keys, up to the time `horizon`, each send settling at once.
NextWithin(calls, keys, horizon) ==
    \/ \E c \in 1..calls, k \in 1..keys : sendEmail(c, k)
    \/ \E c \in Calls, o \in ProviderOutcomes : providerSettles(c, o)
    \/ \E c \in Calls : resume(c)
    \/ \E c \in Calls : waitElapsed(c)
    \/ Tick(horizon, FALSE)

Next == NextWithin(MaxCalls, NumKeys, MaxTime)

Spec == Init /\ [][Next]_vars

NextRate == NextWithin(RateCalls, RateKeys, RateTime)

SpecRate == Init /\ [][NextRate]_vars

\* The steps of the system when a send can take time: the primary provider
\* fails or succeeds (MockProvider1), the secondary always succeeds
\* (MockProvider2).
NextSlow ==
    \/ \E c \in 1..SlowCalls, k \in 1..SlowKeys : sendEmail(c, k)
    \/ \E c \in Calls, o \in ProviderOutcomes :
          (call[c].p = 1 \/ o = "ok") /\ providerSettles(c, o)
    \/ \E c \in Calls : resume(c)
    \/ \E c \in Calls : waitElapsed(c)
    \/ Tick(SlowTime, TRUE)

SpecSlow == Init /\ [][NextSlow]_vars

NextLive == NextWithin(LiveCalls, LiveKeys, LiveTime) \/ TimerTick(LiveTime)

\* Every send of a provider settles, every promise continuation runs, every
\* timer fires and time passes; requests need not arrive.
Fairness ==
    /\ \A c \in Calls : WF_vars(\E o \in ProviderOutcomes : providerSettles(c, o))
    /\ \A c \in Calls : WF_vars(resume(c))
    /\ \A c \in Calls : WF_vars(waitElapsed(c))
    /\ WF_vars(Tick(LiveTime, FALSE) \/ TimerTick(LiveTime))

SpecLive == Init /\ [][NextLive]_vars /\ Fairness

\* ===================================================================
\* Properties
\* ===================================================================
\* call c starts in this step, with key k
Starts(c, k) == call[c].pc = "idle" /\ call'[c].pc # "idle" /\ call'[c].key = k

\* some dispatch for key k has returned a record whose status is sent
ReturnedSent(k) ==
    \E d \in Calls : /\ call[d].pc = "returned"
                     /\ call[d].key = k
                     /\ rec[call[d].ret].status = "sent"

\* the calls started so far
Started == {c \in Calls : call[c].pc # "idle"}

\* C1: once a dispatch for key k has returned with status sent, a dispatch for k
\* that starts afterwards returns at once, invokes no provider send, appends
\* nothing to the rate window and leaves every record (its attempts counter
\* included) and the status map as they were.
C1_NoDuplicateSend ==
    [][\A c \in Calls, k \in Keys :
          (Starts(c, k) /\ ReturnedSent(k)) =>
              /\ call'[c].pc = "returned"
              /\ sendCalledCount' = sendCalledCount
              /\ requestTimestamps' = requestTimestamps
              /\ rec' = rec
              /\ emailStatus' = emailStatus]_vars

\* C1 witness: a dispatch short-circuited on the idempotency check and returned
\* the sent record another dispatch had made.
C1_Witness ==
    \E c \in Calls : /\ call[c].pc = "returned"
                     /\ call[c].ret \notin {0, c}
                     /\ rec[call[c].ret].status = "sent"
                     /\ ~call[c].overlapped

\* C2 (as claimed): when all the dispatches started share one key, each started
\* before any other had completed, no provider send ever failed and all have
\* returned, then the providers were invoked exactly once in total and all
\* returned the same sent record.
C2_RaceSingleSend ==
    \A k \in Keys :
        ( /\ Cardinality(Started) >= 2
          /\ \A c \in Started : /\ call[c].key = k
                                /\ call[c].overlapped
                                /\ call[c].pc = "returned"
          /\ \A p \in Providers : ~everThrew[p] )
        => /\ sendCalledCount[1] + sendCalledCount[2] = 1
           /\ \A c, d \in Started : call[c].ret = call[d].ret
           /\ \A c \in Started : rec[call[c].ret].status = "sent"

\* the stored record of key k is terminal
Terminal(k) == emailStatus[k] # 0 /\ rec[emailStatus[k]].status \in {"sent", "failed"}

\* C3 (as claimed): a dispatch that starts with a key whose stored record is
\* terminal (sent or failed) returns that record at once, without invoking a
\* provider and without changing any record.
C3_TerminalKeyNotRedispatched ==
    [][\A c \in Calls, k \in Keys :
          (Starts(c, k) /\ Terminal(k)) =>
              /\ call'[c].pc = "returned"
              /\ call'[c].ret = emailStatus[k]
              /\ sendCalledCount' = sendCalledCount
              /\ rec' = rec]_vars

\* exactly one dispatch was started on the engine, and it has returned
SingleDispatchReturned == nextId = 2 /\ call[1].pc = "returned"

\* C4: after a single dispatch on a fresh engine, if every send of the primary
\* failed and every send of the secondary succeeded, the returned record is
\* sent with the secondary's name, the primary was invoked MAX_RETRIES + 1 = 3
\* times and the secondary once.
C4_Fallback ==
    (SingleDispatchReturned /\ ~everOk[1] /\ ~everThrew[2]) =>
        /\ rec[call[1].ret].status = "sent"
        /\ rec[call[1].ret].provider = 2
        /\ sendCalledCount[1] = MAX_RETRIES + 1
        /\ sendCalledCount[2] = 1

\* C4 witness: the single dispatch returned after the primary failed on every
\* try and the secondary was invoked.
C4_Witness ==
    /\ SingleDispatchReturned /\ ~everOk[1] /\ ~everThrew[2]
    /\ everThrew[1] /\ everOk[2]
    /\ rec[1].attempts = MAX_RETRIES + 2

\* C5: after a single dispatch on a fresh engine, if every send of every
\* provider failed, the returned record is failed with no provider name and
\* every provider was invoked exactly MAX_RETRIES + 1 = 3 times.
C5_Exhaustion ==
    (SingleDispatchReturned /\ \A p \in Providers : ~everOk[p]) =>
        /\ rec[call[1].ret].status = "failed"
        /\ rec[call[1].ret].provider = 0
        /\ \A p \in Providers : sendCalledCount[p] = MAX_RETRIES + 1

\* C5 witness: the single dispatch returned after every provider failed on
\* every try, with both circuits opened by the third failure.
C5_Witness ==
    /\ SingleDispatchReturned
    /\ \A p \in Providers : ~everOk[p] /\ everThrew[p] /\ cb[p].state = "OPEN"
    /\ rec[1].attempts = NumProviders * (MAX_RETRIES + 1)

\* the dispatches admitted by the rate limiter whose admission time lies in the
\* window that ends at time t
AdmittedInWindow(t) ==
    {d \in Calls : call[d].admittedAt >= 0 /\ t - call[d].admittedAt < RATE_LIMIT_WINDOW_MS}

\* C6: a dispatch that starts with a fresh key (one with no record) is rejected
\* with RateLimitExceeded when RATE_LIMIT_COUNT dispatches were admitted within
\* the window that ends now, and is admitted when fewer were: in particular
\* when the window has elapsed since all earlier admissions.
C6_RateLimit ==
    [][\A c \in Calls, k \in Keys :
          (Starts(c, k) /\ emailStatus[k] = 0) =>
              IF Cardinality(AdmittedInWindow(now)) >= RATE_LIMIT_COUNT
              THEN call'[c].pc = "threw" /\ call'[c].error = "RateLimitExceeded"
              ELSE call'[c].pc \notin {"threw", "returned"} /\ call'[c].admittedAt = now]_vars

\* C6 witness: RATE_LIMIT_COUNT dispatches were admitted, the next one, with a
\* fresh key, was rejected, and a later dispatch with that still fresh key was
\* admitted once the window had elapsed since those admissions.
C6_Witness ==
    \E c, d \in Calls :
        /\ c < d
        /\ call[c].pc = "threw"
        /\ Cardinality({e \in Calls : e < c /\ call[e].admittedAt >= 0}) = RATE_LIMIT_COUNT
        /\ call[d].key = call[c].key
        /\ \A e \in Calls : e < d => call[e].key # call[c].key \/ e = c
        /\ call[d].admittedAt >= 0
        /\ \A e \in Calls : (e < c /\ call[e].admittedAt >= 0) =>
               call[d].admittedAt - call[e].admittedAt >= RATE_LIMIT_WINDOW_MS

\* C7: in every state reached by any interleaving of the dispatches, no window
\* of length RATE_LIMIT_WINDOW_MS holds the admission times of more than
\* RATE_LIMIT_COUNT dispatches, and the retained rate window never holds more
\* than RATE_LIMIT_COUNT timestamps.
C7_WindowBound ==
    /\ Len(requestTimestamps) <= RATE_LIMIT_COUNT
    /\ \A d \in Calls :
           call[d].admittedAt >= 0 =>
               Cardinality({e \in Calls :
                               /\ call[e].admittedAt >= call[d].admittedAt
                               /\ call[e].admittedAt - call[d].admittedAt
                                      < RATE_LIMIT_WINDOW_MS}) <= RATE_LIMIT_COUNT

\* C7 witness: while RATE_LIMIT_COUNT admitted dispatches are still in flight, a
\* concurrent dispatch was rejected and the window is full.
C7_Witness ==
    /\ Len(requestTimestamps) = RATE_LIMIT_COUNT
    /\ Cardinality({d \in Calls : call[d].admittedAt >= 0 /\ ~Finished(d)
                                     /\ call[d].pc # "idle"}) = RATE_LIMIT_COUNT
    /\ \E c \in Calls : call[c].pc = "threw" /\ call[c].overlapped

\* C8: a dispatch rejected with RateLimitExceeded creates or replaces no record
\* (getEmailStatus answers for every key as before), touches no provider and no
\* circuit breaker, and appends no timestamp to the rate window.
C8_RejectionHasNoEffect ==
    [][\A c \in Calls :
          (call[c].pc = "idle" /\ call'[c].pc = "threw") =>
              /\ \A k \in Keys : getEmailStatus(k)' = getEmailStatus(k)
              /\ rec' = rec
              /\ sentEmailIds' = sentEmailIds
              /\ sendCalledCount' = sendCalledCount
              /\ cb' = cb
              /\ Len(requestTimestamps') <= Len(requestTimestamps)
              /\ \A j \in DOMAIN requestTimestamps' :
                     \E h \in DOMAIN requestTimestamps :
                         requestTimestamps'[j] = requestTimestamps[h]]_vars

\* C8 witness: a dispatch with an unknown key was rejected at a time later than
\* every timestamp of the window, and its key is still unknown.
C8_Witness ==
    \E c \in Calls :
        /\ call[c].pc = "threw"
        /\ call[c].error = "RateLimitExceeded"
        /\ getEmailStatus(call[c].key) = 0
        /\ Len(requestTimestamps) = RATE_LIMIT_COUNT
        /\ \A j \in DOMAIN requestTimestamps : requestTimestamps[j] < now

\* the try of call c that has just failed is the last try on the last provider
LastTryFailed(c) ==
    /\ call[c].pc = "settled"
    /\ call[c].outcome # "ok"
    /\ call[c].p = NumProviders
    /\ call[c].i = MAX_RETRIES

\* C9: a dispatch throws only at its start and only RateLimitExceeded; a failed
\* try (provider failure, circuit open, probe in progress) never ends the call
\* with an error, and after the failure of the last try on the last provider
\* the call returns normally a record whose status is failed.
C9_OnlyRateLimitPropagates ==
    [][\A c \in Calls :
          /\ (call[c].pc # "threw" /\ call'[c].pc = "threw") =>
                 call[c].pc = "idle" /\ call'[c].error = "RateLimitExceeded"
          /\ (LastTryFailed(c) /\ call'[c] # call[c]) =>
                 /\ call'[c].pc = "returned"
                 /\ call'[c].error = "none"
                 /\ rec'[call'[c].ret].status = "failed"]_vars

\* C9 witness: a dispatch returned a failed record after tries that the open
\* breakers rejected (its attempts exceed the sends that reached a provider).
C9_Witness ==
    \E c \in Calls :
        /\ call[c].pc = "returned"
        /\ call[c].ret = c
        /\ rec[c].status = "failed"
        /\ c = 2
        /\ nextId = 3
        /\ sendCalledCount[1] + sendCalledCount[2] < rec[1].attempts + rec[2].attempts

\* call c makes a try on provider p in this step: its record counts an attempt
Tries(c, p) == rec'[c].attempts = rec[c].attempts + 1 /\ call'[c].p = p

\* a send of call c on provider p is rejected in this step
SendFails(c, p) ==
    /\ call[c].pc = "inProvider"
    /\ call[c].p = p
    /\ call'[c].pc = "settled"
    /\ call'[c].outcome = "ProviderSendFailure"

\* C10: when the failure of an underlying call is the third in a row, the
\* breaker is OPEN after it; and a send made while the breaker is OPEN and no
\* more than resetTimeout has passed since the last failure is rejected at once
\* with CircuitOpen, without invoking the wrapped provider or changing the
\* breaker.
C10_CircuitOpens ==
    [][\A c \in Calls, p \in Providers :
          /\ (SendFails(c, p) /\ consecFails'[p] >= failureThreshold) =>
                 cb'[p].state = "OPEN"
          /\ (Tries(c, p) /\ cb[p].state = "OPEN"
                /\ now' - cb[p].lastFailureTime <= resetTimeout) =>
                 /\ call'[c].pc = "settled"
                 /\ call'[c].outcome = "CircuitOpen"
                 /\ sendCalledCount'[p] = sendCalledCount[p]
                 /\ cb'[p] = cb[p]]_vars

\* C10 witness: a send was rejected with CircuitOpen by a breaker that three
\* failures in a row had opened from CLOSED, exactly resetTimeout after the
\* last failure.
C10_Witness ==
    \E c \in Calls :
        /\ call[c].pc = "settled"
        /\ call[c].outcome = "CircuitOpen"
        /\ cb[call[c].p].state = "OPEN"
        /\ cb[call[c].p].failureCount = failureThreshold
        /\ consecFails[call[c].p] = failureThreshold
        /\ now - cb[call[c].p].lastFailureTime = resetTimeout

\* the calls whose pending send breaker p admitted as its HALF_OPEN probe
ProbesInFlight(p) ==
    {c \in Calls : call[c].pc = "inProvider" /\ call[c].p = p /\ call[c].probe}

\* C11 (as claimed): at every moment at most one call admitted as a HALF_OPEN
\* probe is pending at a breaker's provider, and a send that reaches the breaker
\* while its probe is pending is rejected at once with ProbeInProgress, without
\* invoking the wrapped provider.
C11_ProbeExclusive ==
    [][\A p \in Providers :
          /\ Cardinality(ProbesInFlight(p)') <= 1
          /\ \A c \in Calls :
                 (Tries(c, p) /\ ProbesInFlight(p) # {}) =>
                     /\ call'[c].pc = "settled"
                     /\ call'[c].outcome = "ProbeInProgress"
                     /\ sendCalledCount'[p] = sendCalledCount[p]]_vars

\* the send of call c on provider p resolves in this step
SendSucceeds(c, p) ==
    /\ call[c].pc = "inProvider"
    /\ call[c].p = p
    /\ call'[c].pc = "settled"
    /\ call'[c].outcome = "ok"

\* C12: when the probe of a HALF_OPEN breaker succeeds, the breaker is CLOSED
\* with failure count 0 and the probe flag cleared; when it fails, the breaker is
\* OPEN again, its last-failure time is the time of that failure and the probe
\* flag is cleared; and a success of an underlying call while the breaker is
\* CLOSED leaves it CLOSED with failure count 0.
C12_ProbeOutcome ==
    [][\A c \in Calls, p \in Providers :
          /\ (SendSucceeds(c, p) /\ call[c].probe /\ cb[p].state = "HALF_OPEN") =>
                 /\ cb'[p].state = "CLOSED"
                 /\ cb'[p].failureCount = 0
                 /\ ~cb'[p].halfOpenRequestPending
          /\ (SendFails(c, p) /\ call[c].probe /\ cb[p].state = "HALF_OPEN") =>
                 /\ cb'[p].state = "OPEN"
                 /\ cb'[p].lastFailureTime = now'
                 /\ ~cb'[p].halfOpenRequestPending
          /\ (SendSucceeds(c, p) /\ cb[p].state = "CLOSED") =>
                 /\ cb'[p].state = "CLOSED"
                 /\ cb'[p].failureCount = 0]_vars

\* C12 witness: the probe of one breaker has just succeeded and closed it, after
\* the probe of the other breaker had failed and opened it again (its count is
\* one above the threshold).
C12_Witness ==
    \E c \in Calls, q \in Providers :
        /\ call[c].pc = "settled"
        /\ call[c].probe
        /\ call[c].outcome = "ok"
        /\ cb[call[c].p].state = "CLOSED"
        /\ cb[call[c].p].failureCount = 0
        /\ cb[q].state = "OPEN"
        /\ cb[q].failureCount = failureThreshold + 1
        /\ cb[q].lastFailureTime > resetTimeout

\* C13: the tries of one dispatch are sequential and ordered.  A try starts only
\* when the dispatch has no send pending; the first try is try 0 on provider 1;
\* a later try follows a try that did not succeed and is the next try on the
\* same provider, or try 0 on the next provider when the previous provider has
\* had all its MAX_RETRIES + 1 tries, so the record's attempts count the tries
\* of all earlier providers in full; a successful try ends the dispatch, which
\* makes no try afterwards; and a single dispatch whose first try succeeds
\* leaves the fallback uninvoked.
C13_TryOrder ==
    [][\A c \in Calls :
          /\ \A p \in Providers :
                 Tries(c, p) =>
                     /\ call[c].pc \in {"idle", "settled", "waiting"}
                     /\ rec'[c].attempts = (p - 1) * (MAX_RETRIES + 1) + call'[c].i + 1
                     /\ IF call[c].pc = "idle"
                        THEN p = 1 /\ call'[c].i = 0
                        ELSE /\ call[c].outcome # "ok"
                             /\ \/ /\ call[c].i < MAX_RETRIES
                                   /\ p = call[c].p
                                   /\ call'[c].i = call[c].i + 1
                                \/ /\ call[c].i = MAX_RETRIES
                                   /\ p = call[c].p + 1
                                   /\ call'[c].i = 0
          /\ (call[c].pc = "settled" /\ call[c].outcome = "ok" /\ call'[c] # call[c]) =>
                 /\ call'[c].pc = "returned"
                 /\ rec'[c].attempts = rec[c].attempts
                 /\ sendCalledCount' = sendCalledCount
          /\ call[c].pc = "returned" =>
                 /\ call'[c] = call[c]
                 /\ rec'[c].attempts = rec[c].attempts
          /\ (SingleDispatchReturned /\ ~everThrew[1])' =>
                 /\ sendCalledCount'[1] = 1
                 /\ sendCalledCount'[2] = 0]_vars

\* C13 witness: a single dispatch returned a record sent by provider 2 on its
\* second try there, after three failed tries on provider 1: five attempts, two
\* invocations of provider 2.
C13_Witness ==
    /\ SingleDispatchReturned
    /\ rec[1].status = "sent"
    /\ rec[1].provider = 2
    /\ rec[1].attempts = MAX_RETRIES + 3
    /\ sendCalledCount[1] = MAX_RETRIES + 1
    /\ sendCalledCount[2] = 2

\* the records created for key k so far
RecordsOf(k) == {c \in Calls : rec[c].idempotencyKey = k}

\* C14 (as claimed): over any sequence of dispatches, sequential or concurrent,
\* at most one record is ever created for a key: a dispatch for a key that has
\* a record, pending, sent or failed, creates no second one.
C14_OneRecordPerKey == \A k \in Keys : Cardinality(RecordsOf(k)) <= 1

\* C15 (as claimed): once the record that getEmailStatus returns for a key is
\* sent or failed, every later getEmailStatus for that key returns the same
\* status, provider and attempts.
C15_TerminalStable ==
    [][\A k \in Keys :
          Terminal(k) =>
              /\ rec'[getEmailStatus(k)'].status = rec[getEmailStatus(k)].status
              /\ rec'[getEmailStatus(k)'].provider = rec[getEmailStatus(k)].provider
              /\ rec'[getEmailStatus(k)'].attempts = rec[getEmailStatus(k)].attempts]_vars

\* C16: under fair scheduling (every send settles, every backoff timer fires)
\* every dispatch admitted past the idempotency and rate checks eventually
\* returns its own record with status sent or failed, no record stays pending
\* forever, and no record ever counts more than NumProviders * (MAX_RETRIES + 1)
\* tries.
C16_Termination ==
    /\ [](\A c \in Calls : rec[c].attempts <= NumProviders * (MAX_RETRIES + 1))
    /\ \A c \in Calls :
           (call[c].admittedAt >= 0) ~>
               (/\ call[c].pc = "returned"
                /\ call[c].ret = c
                /\ rec[c].status \in {"sent", "failed"})
    /\ \A c \in Calls :
           (rec[c].status = "pending") ~> (rec[c].status \in {"sent", "failed"})

\* C16 witness: a dispatch admitted after the breakers' reset timeout has
\* returned, past the horizon, a failed record after all its
\* NumProviders * (MAX_RETRIES + 1) tries, some of them rejected by an open
\* breaker.
C16_Witness ==
    \E c \in Calls :
        /\ call[c].admittedAt > resetTimeout
        /\ call[c].pc = "returned"
        /\ rec[c].status = "failed"
        /\ rec[c].attempts = NumProviders * (MAX_RETRIES + 1)
        /\ sendCalledCount[1] + sendCalledCount[2] < rec[1].attempts + rec[2].attempts
        /\ now > LiveTime

\* C17 (as claimed): a send-email request whose dispatch was rejected with
\* RateLimitExceeded has been answered with 429, not with 202.
C17_RateLimitAnswered429 ==
    \A c \in Calls :
        (call[c].pc = "threw" /\ call[c].error = "RateLimitExceeded") =>
            call[c].response = 429

\* the errors with which a breaker rejects a send
BreakerRejections == {"CircuitOpen", "ProbeInProgress"}

\* a try of call c fails in this step, with an error of the set errs
TryFails(c, errs) ==
    /\ call'[c] # call[c]
    /\ call'[c].pc = "settled"
    /\ call'[c].outcome \in errs

\* what the dispatch loop does in this step with the failed try of call c: it
\* waits Backoff(i) when the try was not the provider's last, otherwise it tries
\* the next provider at once, or returns the record as failed after the last
\* provider
FailedTryHandled(c) ==
    IF call[c].i < MAX_RETRIES
    THEN /\ call'[c].pc = "waiting"
         /\ call'[c].wakeAt = now + Backoff(call[c].i)
         /\ call'[c].p = call[c].p
         /\ call'[c].i = call[c].i
         /\ rec'[c] = rec[c]
    ELSE IF call[c].p < NumProviders
         THEN Tries(c, call[c].p + 1) /\ call'[c].i = 0
         ELSE call'[c].pc = "returned" /\ rec'[c].status = "failed"

\* C18: a try that the breaker rejects (circuit open, or probe in progress) is
\* counted on the record, with the time of the try, without an invocation of the
\* wrapped provider, and the dispatch loop goes on after it exactly as after a
\* failure of the provider: the same backoff when tries are left on this
\* provider, the next provider only after the last try.
C18_RejectionIsAFailedTry ==
    [][\A c \in Calls :
          /\ TryFails(c, BreakerRejections) =>
                 /\ rec'[c].attempts = rec[c].attempts + 1
                 /\ rec'[c].lastAttempt = now
                 /\ sendCalledCount' = sendCalledCount
                 /\ call[c].pc # "idle" =>
                        \/ call'[c].p = call[c].p /\ call'[c].i = call[c].i + 1
                        \/ /\ call[c].i = MAX_RETRIES
                           /\ call'[c].p = call[c].p + 1
                           /\ call'[c].i = 0
          /\ ( /\ call[c].pc = "settled"
               /\ call[c].outcome \in BreakerRejections \cup {"ProviderSendFailure"}
               /\ call'[c] # call[c] ) => FailedTryHandled(c)]_vars

\* C18 witness: one dispatch waits for its backoff after a try rejected with
\* CircuitOpen, another after a first try rejected with ProbeInProgress.
C18_Witness ==
    \E c, d \in Calls :
        /\ call[c].pc = "waiting"
        /\ call[c].outcome = "CircuitOpen"
        /\ call[c].wakeAt = rec[c].lastAttempt + Backoff(call[c].i)
        /\ call[d].pc = "waiting"
        /\ call[d].outcome = "ProbeInProgress"
        /\ rec[d].attempts = 1

C20_LazyHalfOpen ==
    [][\A p \in Providers :
          /\ (cb[p].state = "OPEN" /\ cb'[p].state = "HALF_OPEN") =>
                 /\ \E c \in Calls : Tries(c, p)
                 /\ now - cb[p].lastFailureTime > resetTimeout
          /\ now' # now => cb' = cb
          /\ \A c \in Calls :
                 ( /\ Tries(c, p)
                   /\ cb[p].state = "OPEN"
                   /\ now - cb[p].lastFailureTime <= resetTimeout ) =>
                     /\ call'[c].outcome = "CircuitOpen"
                     /\ cb'[p].state = "OPEN"
                     /\ cb'[p].failureCount = cb[p].failureCount
                     /\ cb'[p].lastFailureTime = cb[p].lastFailureTime
                     /\ cb'[p].halfOpenRequestPending = cb[p].halfOpenRequestPending]_vars

\* C20 witness: a breaker rejected a try made exactly resetTimeout after its
\* last failure and, one millisecond later, went HALF_OPEN on the try of another
\* dispatch, whose probe is pending.
C20_Witness ==
    \E c, d \in Calls, p \in Providers :
        /\ call[c].pc = "waiting"
        /\ call[c].p = p
        /\ call[c].outcome = "CircuitOpen"
        /\ rec[c].lastAttempt - cb[p].lastFailureTime = resetTimeout
        /\ call[d].pc = "inProvider"
        /\ call[d].p = p
        /\ call[d].probe
        /\ cb[p].state = "HALF_OPEN"
        /\ now - cb[p].lastFailureTime = resetTimeout + 1

\* the records that the status map holds or that a dispatch has returned
StoredOrReturned ==
    ({emailStatus[k] : k \in Keys} \cup {call[c].ret : c \in Calls}) \ {0}

\* C21: in every reachable state, every record that the status map holds or a
\* dispatch has returned, and every other record created, has a provider name
\* exactly when its status is sent, at most NumProviders * (MAX_RETRIES + 1)
\* attempts, exactly that many when its status is failed, and at least one when
\* its status is sent.
C21_RecordWellFormed ==
    \A c \in StoredOrReturned \cup {d \in Calls : rec[d].status # "none"} :
        /\ rec[c].status \in {"pending", "sent", "failed"}
        /\ (rec[c].provider # 0) <=> (rec[c].status = "sent")
        /\ rec[c].attempts <= NumProviders * (MAX_RETRIES + 1)
        /\ rec[c].status = "failed" =>
               rec[c].attempts = NumProviders * (MAX_RETRIES + 1)
        /\ rec[c].status = "sent" => rec[c].attempts >= 1

\* C21 witness: the status map holds a failed record with all its
\* NumProviders * (MAX_RETRIES + 1) attempts and a record sent by provider 2 on a
\* later try than its first, and provider 1's open breaker rejected some of the
\* tries that the two made on it.
C21_Witness ==
    \E c, d \in StoredOrReturned :
        /\ rec[c].status = "failed"
        /\ rec[c].attempts = NumProviders * (MAX_RETRIES + 1)
        /\ rec[d].status = "sent"
        /\ rec[d].provider = 2
        /\ rec[d].attempts > MAX_RETRIES + 2
        /\ \E k, j \in Keys : emailStatus[k] = c /\ emailStatus[j] = d
        /\ sendCalledCount[1] < 2 * (MAX_RETRIES + 1)

\* C22: in every state between two steps of any interleaving, a breaker that is
\* OPEN or HALF_OPEN has a failure count of at least failureThreshold (a count
\* below it implies CLOSED), its probe flag is set when it is HALF_OPEN and
\* clear when it is CLOSED or OPEN.
C22_BreakerInvariant ==
    \A p \in Providers :
        /\ cb[p].state \in {"OPEN", "HALF_OPEN"} => cb[p].failureCount >= failureThreshold
        /\ cb[p].failureCount < failureThreshold => cb[p].state = "CLOSED"
        /\ cb[p].state = "HALF_OPEN" => cb[p].halfOpenRequestPending
        /\ cb[p].state \in {"CLOSED", "OPEN"} => ~cb[p].halfOpenRequestPending

\* C22 witness: one breaker is HALF_OPEN with its probe pending, the other is
\* OPEN again after its own probe failed, and a second dispatch was rejected
\* while the probe is pending.
C22_Witness ==
    \E p, q \in Providers, c, d \in Calls :
        /\ cb[p].state = "HALF_OPEN"
        /\ cb[p].halfOpenRequestPending
        /\ call[c].pc = "inProvider" /\ call[c].p = p /\ call[c].probe
        /\ cb[q].state = "OPEN"
        /\ cb[q].failureCount = failureThreshold + 1
        /\ call[d].outcome = "ProbeInProgress"

\* C23 (as claimed): in every reachable state every key of sentEmailIds has a
\* stored record whose status is sent, with a provider name, and the record that
\* a dispatch returned from the idempotency check has status sent.
C23_RegistryConsistent ==
    /\ \A k \in sentEmailIds :
           /\ getEmailStatus(k) # 0
           /\ rec[getEmailStatus(k)].status = "sent"
           /\ rec[getEmailStatus(k)].provider # 0
    /\ \A c \in Calls :
           (call[c].pc = "returned" /\ call[c].ret # c) =>
               /\ call[c].ret # 0
               /\ rec[call[c].ret].status = "sent"

====
